---- MODULE Spec2Model ----
(***************************************************************************)
(* A model of chat_room.Room (src/chat_room/room.go): one room hub with    *)
(* its control loop (Room.serve), the goroutines that call UserJoin, the   *)
(* read goroutine of every session (onMessage / onClientLeave), the        *)
(* history replay (sendHistory) and Stop.                                  *)
(*                                                                         *)
(* All three request channels are unbuffered: a goroutine whose program    *)
(* counter is at a channel send is the pending offer, and the loop's       *)
(* select takes any ready offer (Go picks at random among ready cases).    *)
(* Client (Serve, Send, Stop) and the store (WriteChatInfoToLocalFile)     *)
(* are not part of room.go; they are modelled from their contract.         *)
(***************************************************************************)
EXTENDS Integers, Sequences, FiniteSets, TLC

\* ---------------------------------------------------------------- bounds
\* The sessions there are; Spec and SpecRun connect RunSessions of them.
NumClients == 3
RunSessions == 2
MaxUserMsgs == 1
MaxReplays == 1
MaxInitLen == 0
\* SpecSolo: one session, more traffic, stored histories around the replay
\* limit.
SoloUserMsgs == 2
SoloReplays == 2
\* SpecLive: a session whose transport may stall, Stop, repeated calls of
\* Serve, no replay.
LiveSessions == 1
LiveUserMsgs == 2
LiveServeCalls == 2

\* ------------------------------------------------------ program constants
maxHistoryCount == 100

RoomName == "lobby"

Clients == 1..NumClients

\* chat_type.Message, reduced to the fields room.go reads or writes.
Msg(t, d, r) == [Type |-> t, Data |-> d, RoomName |-> r]

NoMsg == Msg("none", 0, "")

\* What a session's transport can deliver to onMessage: the three stored
\* types and a tag the switch in serve does not know.
UserTypes == {"text", "image", "file", "ping"}

UserMsgs == {Msg(t, 0, RoomName) : t \in UserTypes}

\* The history a room is constructed with (loaded by the room directory):
\* text messages numbered by position.
StoredHistory(n) == [i \in 1..n |-> Msg("text", i, RoomName)]

VARIABLES
    roster,       \* the sessions that connect in this run (environment)
    msgBudget,    \* how many messages the transports deliver in this run
    replayBudget, \* how many sendHistory calls are made in this run
    ctxDone,      \* h.ctx is cancelled
    loopPc,       \* where the control loop is
    loopMsg,      \* the message the loop took from h.broadcast
    pending,      \* the sessions the range loop has still to visit
    clients,      \* h.clients
    Messages,     \* h.Messages
    storeCalls,   \* how often the store was invoked
    jpc,          \* per session: the goroutine running UserJoin
    jcount,       \* per session: userCount local of UserJoin's count call
    rpc,          \* per session: the session's read goroutine
    rmsg,         \* per session: the message its onMessage is broadcasting
    rcount,       \* per session: userCount local of the leave callback
    stopped,      \* per session: client.ctx is cancelled
    handed,       \* per session: the client.Send call the loop made for
                  \* the message it is fanning out
    lastSeq,      \* history variable: per session, the acceptance number
                  \* of the message the loop last handed to it
    hpc,          \* per session: the goroutine running sendHistory
    hlen,         \* per session: len(h.Messages) as read at line 81
    quiet,        \* history variable: per session, no broadcast was
                  \* accepted since its latest sendHistory call began
    hchain,       \* history variable: per session, no broadcast was accepted
                  \* between the start of its previous sendHistory call and
                  \* the start of the one in progress
    lastReplay,   \* per session: what the latest sendHistory call sent
    nread,        \* number of messages read from transports so far
    nreplays,     \* number of sendHistory calls so far
    nacc,         \* number of broadcasts the loop accepted so far
    initLen,      \* history variable: length of the history at construction
    acceptedP,    \* history variable: accepted text, image, file messages
    registered,   \* history variable: sessions whose register was processed
    removals,     \* history variable: unregisters that removed a session
    sizeAtLeave,  \* history variable: len(h.clients) right after the
                  \* session was removed, until its leave callback has
                  \* read the count; NoSize otherwise
    stalled,      \* per session: its write goroutine is stuck in a write
                  \* to the transport and no longer receives from send
    initDone,     \* h.init (sync.Once) has run its function
    nloops,       \* number of goroutines running serve started so far
    serveBudget,  \* how many calls of Serve are made in this run
    nserve        \* number of calls of Serve so far

vars == <<roster, msgBudget, replayBudget, ctxDone, loopPc, loopMsg, pending, clients, Messages,
          storeCalls, jpc, jcount, rpc, rmsg, rcount, stopped, handed, lastSeq, hpc,
          hlen, quiet, hchain, lastReplay, nread, nreplays, nacc, initLen, acceptedP,
          registered, removals, sizeAtLeave, stalled, initDone, nloops,
          serveBudget, nserve>>

loopVars == <<loopPc, loopMsg, pending>>
hubVars == <<clients, Messages, storeCalls>>
joinVars == <<jpc, jcount>>
readVars == <<rpc, rmsg, rcount, nread>>
histVars == <<hpc, hlen, hchain, lastReplay, nreplays>>
ghostVars == <<roster, msgBudget, replayBudget, initLen, nacc, acceptedP, registered, removals,
               sizeAtLeave, lastSeq, quiet>>
onceVars == <<initDone, nloops, serveBudget, nserve>>

\* ------------------------------------------------------------- helpers
IsPrefix(s, t) == Len(s) <= Len(t) /\ SubSeq(t, 1, Len(s)) = s

Min(a, b) == IF a <= b THEN a ELSE b

\* The loop has run case <-h.ctx.Done(): all three channels are closed.
closed == loopPc = "exited"

\* A session exists once UserJoin built it and called client.Serve().
created(c) == jpc[c] # "idle"

NoSize == 0 - 1

\* No call of client.Send yet; no sendHistory call yet.
NoSend == [msg |-> NoMsg, ok |-> FALSE]

NoReplay == [sent |-> <<>>, ok |-> FALSE]

\* The message types the room is to keep in its history.
StoredTypes == {"text", "image", "file"}

\* The last k elements of s, oldest first.
LastN(s, k) == [i \in 1..k |-> s[Len(s) - k + i]]

\* ------------------------------------------------ pieces of the code
\* Mutants of Persistable: the file case forgotten; every type stored.
PersistableNoFile(t) == t \in {"text", "image"}

PersistableAll(t) == TRUE

\* switch message.Type { case "text", "image", "file": ... }
Persistable(t) == t \in {"text", "image", "file"}

\* h.clients[client] = true
RegisterClient(cs, c) == cs \cup {c}

\* Mutant of DeleteClient: the session is stopped but stays in the map.
DeleteClientKept(cs, c) == cs

\* delete(h.clients, client)
DeleteClient(cs, c) == cs \ {c}

\* len(h.clients)
UserCountOf(cs) == Cardinality(cs)

\* chat_type.Message{Type: "userCount", Data: jsonData}
UserCountMsg(n) == Msg("userCount", n, "")

\* chat_type.Message{Type: "over", RoomName: h.RoomName}
OverMsg == Msg("over", 0, RoomName)

\* Mutant of HistorySlice: the slice starts one element too early.
HistorySliceOffByOne(tested, msgs) ==
    IF tested > maxHistoryCount
    THEN SubSeq(msgs, Len(msgs) - maxHistoryCount, Len(msgs))
    ELSE msgs

\* The slice sendHistory replays, given the length it tested at line 81
\* and the slice it reads afterwards at line 83 or 85.
HistorySlice(tested, msgs) ==
    IF tested > maxHistoryCount
    THEN SubSeq(msgs, Len(msgs) - maxHistoryCount + 1, Len(msgs))
    ELSE msgs

\* Mutant of HistoryAfterReplay: the replay truncates the room's history in
\* place (h.Messages = h.Messages[len(h.Messages)-maxHistoryCount:]).
HistoryTruncatedByReplay(msgs) ==
    IF Len(msgs) > maxHistoryCount
    THEN SubSeq(msgs, Len(msgs) - maxHistoryCount + 1, Len(msgs))
    ELSE msgs

\* sendHistory only reads h.Messages: messages is a new slice header over
\* the same array, h.Messages keeps its own.
HistoryAfterReplay(msgs) == msgs

\* client.Send(m): the message is handed to the session; the call reports
\* an error, and delivers nothing, when the session is already torn down.
ClientSend(c, m) == [msg |-> m, ok |-> ~stopped[c]]

\* client.Send(m) returns: the session's write goroutine took the message
\* from the unbuffered send channel, or the session is torn down and the
\* call reports the error. Until then the caller is blocked in Send.
SendReturns(c) == stopped[c] \/ ~stalled[c]

\* Mutant of WithCancel: the session's context is made from
\* context.Background(), not from h.ctx.
WithCancelDetached(parentDone) == FALSE

\* context.WithCancel(h.ctx): the child context is born cancelled when the
\* parent already is.
WithCancel(parentDone) == parentDone

\* h.stop(): cancelling h.ctx cancels every context derived from it, that
\* is the context of every session UserJoin built so far.
CancelChildren(st) == [c \in Clients |-> st[c] \/ jpc[c] # "idle"]

\* Mutant of ClientsAfterUserJoin: UserJoin writes the map itself
\* (h.clients[client] = true before the send on h.register).
ClientsInsertedByCaller(cs, c) == cs \cup {c}

\* UserJoin does not touch h.clients: it hands the session to the loop.
ClientsAfterUserJoin(cs, c) == cs

\* Mutants of RoomCtxDone: the loop's select has the Done case ready at any
\* time; the loop's select has no Done case.
RoomCtxDoneAnyTime == TRUE

RoomCtxNeverDone == FALSE

\* case <-h.ctx.Done() is ready.
RoomCtxDone == ctxDone

\* Mutant of StopClient: the loop calls h.stop() where it is to call
\* client.Stop().
StopRoomWide(st, c) == [x \in Clients |-> st[x] \/ jpc[x] # "idle"]

\* client.Stop(): the session's own context is cancelled.
StopClient(st, c) == [st EXCEPT ![c] = TRUE]

\* Mutant of FanoutTargets: the sender is skipped.
FanoutOthers(cs, sender) == cs \ {sender}

\* for client := range h.clients: every session in the map, the one whose
\* goroutine sent the message included.
FanoutTargets(cs, sender) == cs

\* ------------------------------------------------------------------ Init
\* newRoom: nothing registered, the loop not started, the history as the
\* room directory loaded it.
InitRoom(n) ==
    /\ ctxDone = FALSE
    /\ loopPc = "notstarted"
    /\ loopMsg = NoMsg
    /\ pending = {}
    /\ clients = {}
    /\ Messages = StoredHistory(n)
    /\ storeCalls = 0
    /\ jpc = [c \in Clients |-> "idle"]
    /\ jcount = [c \in Clients |-> 0]
    /\ rpc = [c \in Clients |-> "idle"]
    /\ rmsg = [c \in Clients |-> NoMsg]
    /\ rcount = [c \in Clients |-> 0]
    /\ stopped = [c \in Clients |-> FALSE]
    /\ handed = [c \in Clients |-> NoSend]
    /\ lastSeq = [c \in Clients |-> 0]
    /\ hpc = [c \in Clients |-> "idle"]
    /\ hlen = [c \in Clients |-> 0]
    /\ quiet = [c \in Clients |-> FALSE]
    /\ hchain = [c \in Clients |-> FALSE]
    /\ lastReplay = [c \in Clients |-> NoReplay]
    /\ nread = 0
    /\ nreplays = 0
    /\ nacc = 0
    /\ initLen = n
    /\ acceptedP = <<>>
    /\ registered = {}
    /\ removals = 0
    /\ sizeAtLeave = [c \in Clients |-> NoSize]
    /\ stalled = [c \in Clients |-> FALSE]
    /\ initDone = FALSE
    /\ nloops = 0
    /\ nserve = 0

Init ==
    /\ roster = 1..RunSessions
    /\ serveBudget = 1
    /\ msgBudget = MaxUserMsgs
    /\ replayBudget = MaxReplays
    /\ \E n \in 0..MaxInitLen : InitRoom(n)

\* The stored history lengths of SpecSolo: empty, just below the replay
\* limit, at it, and well beyond it.
SoloLens ==
    {0, maxHistoryCount - 1, maxHistoryCount, maxHistoryCount + 50}

InitSolo ==
    /\ roster = {1}
    /\ serveBudget = 1
    /\ msgBudget = SoloUserMsgs
    /\ replayBudget = SoloReplays
    /\ \E n \in SoloLens : InitRoom(n)

\* ------------------------------------------------------- Serve and Stop
\* Mutant of OnceDo: the function is run on every call (Serve written as
\* a plain go h.serve()).
OnceDoAlways(done) == TRUE

\* h.init.Do(f): f is run when no call of Do has run it before.
OnceDo(done) == ~done

\* Room.Serve: h.init.Do starts the control loop, once; sync.Once makes
\* concurrent calls take their turn, so each call is one step.
RoomServe ==
    /\ nserve < serveBudget
    /\ nserve' = nserve + 1
    /\ IF OnceDo(initDone)
       THEN /\ initDone' = TRUE
            /\ nloops' = nloops + 1
            /\ loopPc' = "select"
       ELSE UNCHANGED <<initDone, nloops, loopPc>>
    /\ UNCHANGED <<ctxDone, loopMsg, pending, stopped, handed, stalled,
                   serveBudget>>
    /\ UNCHANGED <<hubVars, joinVars, readVars, histVars, ghostVars>>

\* Room.Stop: h.stop() cancels h.ctx and with it every child context, that
\* is the context of every session built so far.
RoomStop ==
    /\ ~ctxDone
    /\ ctxDone' = TRUE
    /\ stopped' = CancelChildren(stopped)
    /\ UNCHANGED <<loopVars, handed>>
    /\ UNCHANGED <<hubVars, joinVars, readVars, histVars, ghostVars>>
    /\ UNCHANGED <<stalled, onceVars>>

\* ------------------------------------------------------------- UserJoin
\* UserJoin up to its send on h.register: the session's context is a child
\* of h.ctx (born cancelled when h.ctx already is), client.Serve() starts
\* the session's goroutines, then the caller offers the session on
\* h.register.
UserJoin(c) ==
    /\ c \in roster
    /\ jpc[c] = "idle"
    /\ jpc' = [jpc EXCEPT ![c] = "register"]
    /\ rpc' = [rpc EXCEPT ![c] = "reading"]
    /\ stopped' = [stopped EXCEPT ![c] = WithCancel(ctxDone)]
    /\ clients' = ClientsAfterUserJoin(clients, c)
    /\ UNCHANGED <<ctxDone, loopVars, jcount, rmsg, rcount, nread, handed>>
    /\ UNCHANGED <<Messages, storeCalls, histVars, ghostVars>>
    /\ UNCHANGED <<stalled, onceVars>>

\* broadRoomUserCountMessage as called by UserJoin: read len(h.clients),
\* return when it is not positive, else offer the userCount message.
JoinCount(c) ==
    /\ jpc[c] = "count"
    /\ LET n == UserCountOf(clients) IN
        /\ jcount' = [jcount EXCEPT ![c] = IF n <= 0 THEN 0 ELSE n]
        /\ jpc' = [jpc EXCEPT ![c] = IF n <= 0 THEN "done" ELSE "bcast"]
    /\ UNCHANGED <<ctxDone, loopVars, stopped, handed>>
    /\ UNCHANGED <<hubVars, readVars, histVars, ghostVars>>
    /\ UNCHANGED <<stalled, onceVars>>

\* A send on a closed channel panics: h.register <- client or, inside
\* BroadCast, h.broadcast <- m, once the loop has closed the channels.
JoinPanic(c) ==
    /\ closed
    /\ jpc[c] \in {"register", "bcast"}
    /\ jpc' = [jpc EXCEPT ![c] = "panic"]
    /\ jcount' = [jcount EXCEPT ![c] = 0]
    /\ UNCHANGED <<ctxDone, loopVars, stopped, handed>>
    /\ UNCHANGED <<hubVars, readVars, histVars, ghostVars>>
    /\ UNCHANGED <<stalled, onceVars>>

\* ------------------------------------------- the session's read goroutine
\* onMessage: the session read m from its transport and calls BroadCast.
ClientRead(c, m) ==
    /\ rpc[c] = "reading"
    /\ ~stopped[c]
    /\ nread < msgBudget
    /\ rpc' = [rpc EXCEPT ![c] = "bcast"]
    /\ rmsg' = [rmsg EXCEPT ![c] = m]
    /\ nread' = nread + 1
    /\ UNCHANGED <<ctxDone, loopVars, rcount, stopped, handed>>
    /\ UNCHANGED <<hubVars, joinVars, histVars, ghostVars>>
    /\ UNCHANGED <<stalled, onceVars>>

\* The transport closed or the session's context was cancelled: the
\* session calls onClientLeave, once, which offers it on h.unregister.
ClientDisconnect(c) ==
    /\ rpc[c] = "reading"
    /\ rpc' = [rpc EXCEPT ![c] = "unregister"]
    /\ UNCHANGED <<ctxDone, loopVars, rmsg, rcount, nread, stopped, handed>>
    /\ UNCHANGED <<hubVars, joinVars, histVars, ghostVars>>
    /\ UNCHANGED <<stalled, onceVars>>

\* broadRoomUserCountMessage as called by onClientLeave.
LeaveCount(c) ==
    /\ rpc[c] = "lcount"
    /\ LET n == UserCountOf(clients) IN
        /\ rcount' = [rcount EXCEPT ![c] = IF n <= 0 THEN 0 ELSE n]
        /\ rpc' = [rpc EXCEPT ![c] = IF n <= 0 THEN "done" ELSE "lbcast"]
    /\ sizeAtLeave' = [sizeAtLeave EXCEPT ![c] = NoSize]
    /\ UNCHANGED <<ctxDone, loopVars, rmsg, nread, stopped, handed>>
    /\ UNCHANGED <<hubVars, joinVars, histVars>>
    /\ UNCHANGED <<roster, msgBudget, replayBudget, initLen, nacc,
                   acceptedP, registered, removals, lastSeq, quiet>>
    /\ UNCHANGED <<stalled, onceVars>>

\* The read goroutine's sends on a closed channel: h.unregister <- c and
\* h.broadcast <- m.
ReadPanic(c) ==
    /\ closed
    /\ rpc[c] \in {"unregister", "bcast", "lbcast"}
    /\ rpc' = [rpc EXCEPT ![c] = "panic"]
    /\ rmsg' = [rmsg EXCEPT ![c] = NoMsg]
    /\ rcount' = [rcount EXCEPT ![c] = 0]
    /\ UNCHANGED <<ctxDone, loopVars, nread, stopped, handed>>
    /\ UNCHANGED <<hubVars, joinVars, histVars, ghostVars>>
    /\ UNCHANGED <<stalled, onceVars>>

\* The session's write goroutine gets stuck in a write to its transport (a
\* peer that stopped reading): from now on nothing receives from send.
ClientStall(c) ==
    /\ created(c)
    /\ ~stalled[c]
    /\ stalled' = [stalled EXCEPT ![c] = TRUE]
    /\ UNCHANGED <<ctxDone, loopVars, stopped, handed, onceVars>>
    /\ UNCHANGED <<hubVars, joinVars, readVars, histVars, ghostVars>>

\* ------------------------------------------------------ the control loop
\* The goroutines blocked in h.broadcast <- m, with the message of each:
\* UserJoin's count call, a session's onMessage, a session's leave callback.
Offers ==
    {<<"join", c>> : c \in {x \in Clients : jpc[x] = "bcast"}}
    \cup {<<"msg", c>> : c \in {x \in Clients : rpc[x] = "bcast"}}
    \cup {<<"leave", c>> : c \in {x \in Clients : rpc[x] = "lbcast"}}

OfferMsg(o) ==
    CASE o[1] = "join" -> UserCountMsg(jcount[o[2]])
      [] o[1] = "msg" -> rmsg[o[2]]
      [] o[1] = "leave" -> UserCountMsg(rcount[o[2]])

\* Mutant of LoopAtSelect: the fan-out no longer holds the loop back (as if
\* the range loop ran in a goroutine of its own).
LoopAtSelectOrFanout == loopPc \in {"select", "fanout"}

\* The loop is at its select: it takes the next request only when the case
\* body of the previous one, fan-out included, has returned.
LoopAtSelect == loopPc = "select"

\* case <-h.ctx.Done(): close the three channels and return.
LoopStop ==
    /\ LoopAtSelect
    /\ RoomCtxDone
    /\ loopPc' = "exited"
    /\ UNCHANGED <<ctxDone, loopMsg, pending, stopped, handed>>
    /\ UNCHANGED <<hubVars, joinVars, readVars, histVars, ghostVars>>
    /\ UNCHANGED <<stalled, onceVars>>

\* case client := <-h.register
LoopRegister(c) ==
    /\ LoopAtSelect
    /\ jpc[c] = "register"
    /\ clients' = RegisterClient(clients, c)
    /\ jpc' = [jpc EXCEPT ![c] = "count"]
    /\ registered' = registered \cup {c}
    /\ UNCHANGED <<ctxDone, loopVars, Messages, storeCalls, jcount, stopped,
                   handed, roster, msgBudget, replayBudget, initLen, nacc,
                   acceptedP, removals,
                   sizeAtLeave, lastSeq, quiet>>
    /\ UNCHANGED <<readVars, histVars>>
    /\ UNCHANGED <<stalled, onceVars>>

\* case client := <-h.unregister: a session in the map is deleted and
\* stopped, any other is ignored.
LoopUnregister(c) ==
    /\ LoopAtSelect
    /\ rpc[c] = "unregister"
    /\ rpc' = [rpc EXCEPT ![c] = "lcount"]
    /\ IF c \in clients
       THEN /\ clients' = DeleteClient(clients, c)
            /\ stopped' = StopClient(stopped, c)
            /\ removals' = removals + 1
            /\ sizeAtLeave' = [sizeAtLeave EXCEPT
                                 ![c] = Cardinality(clients')]
       ELSE UNCHANGED <<clients, stopped, removals, sizeAtLeave>>
    /\ UNCHANGED <<ctxDone, loopVars, Messages, storeCalls, rmsg, rcount,
                   nread, handed, roster, msgBudget, replayBudget, initLen, nacc,
                   acceptedP,
                   registered, lastSeq, quiet>>
    /\ UNCHANGED <<joinVars, histVars>>
    /\ UNCHANGED <<stalled, onceVars>>

\* case message := <-h.broadcast, up to the store call: the sender is
\* released, a text, image or file message is appended to h.Messages.
LoopBroadcast(o) ==
    /\ LoopAtSelect
    /\ o \in Offers
    /\ LET m == OfferMsg(o) IN
        /\ loopMsg' = m
        /\ Messages' = IF Persistable(m.Type) THEN Append(Messages, m)
                       ELSE Messages
        /\ loopPc' = IF Persistable(m.Type) THEN "persist" ELSE "fanout"
        /\ acceptedP' = IF m.Type \in StoredTypes THEN Append(acceptedP, m)
                        ELSE acceptedP
    /\ nacc' = nacc + 1
    /\ quiet' = [c \in Clients |-> FALSE]
    /\ pending' = FanoutTargets(clients, o[2])
    /\ IF o[1] = "join"
       THEN /\ jpc' = [jpc EXCEPT ![o[2]] = "done"]
            /\ jcount' = [jcount EXCEPT ![o[2]] = 0]
            /\ UNCHANGED <<rpc, rmsg, rcount>>
       ELSE /\ rpc' = [rpc EXCEPT
                         ![o[2]] = IF o[1] = "msg" THEN "reading" ELSE "done"]
            /\ rmsg' = [rmsg EXCEPT ![o[2]] = NoMsg]
            /\ rcount' = [rcount EXCEPT ![o[2]] = 0]
            /\ UNCHANGED <<jpc, jcount>>
    /\ UNCHANGED <<ctxDone, clients, storeCalls, nread, stopped, handed,
                   roster, msgBudget, replayBudget, initLen, registered,
                   removals, sizeAtLeave, lastSeq>>
    /\ UNCHANGED histVars
    /\ UNCHANGED <<stalled, onceVars>>

\* _ = chat_db.WriteChatInfoToLocalFile(h.ChatRoom): one call of the store,
\* its result dropped.
LoopPersist ==
    /\ loopPc = "persist"
    /\ storeCalls' = storeCalls + 1
    /\ loopPc' = "fanout"
    /\ UNCHANGED <<ctxDone, loopMsg, pending, clients, Messages, stopped,
                   handed>>
    /\ UNCHANGED <<joinVars, readVars, histVars, ghostVars>>
    /\ UNCHANGED <<stalled, onceVars>>

\* One iteration of for client := range h.clients (Go visits the map in
\* no fixed order): _ = client.Send(message), once the call returns.
LoopSend(c) ==
    /\ loopPc = "fanout"
    /\ c \in pending
    /\ SendReturns(c)
    /\ handed' = [handed EXCEPT ![c] = ClientSend(c, loopMsg)]
    /\ lastSeq' = [lastSeq EXCEPT ![c] = nacc]
    /\ pending' = pending \ {c}
    /\ UNCHANGED <<ctxDone, loopPc, loopMsg, stopped>>
    /\ UNCHANGED <<hubVars, joinVars, readVars, histVars>>
    /\ UNCHANGED <<roster, msgBudget, replayBudget, initLen, nacc,
                   acceptedP, registered, removals, sizeAtLeave, quiet>>
    /\ UNCHANGED <<stalled, onceVars>>

\* The range loop is over: back to the select.
LoopFanoutEnd ==
    /\ loopPc = "fanout"
    /\ pending = {}
    /\ loopPc' = "select"
    /\ loopMsg' = NoMsg
    /\ handed' = [c \in Clients |-> NoSend]
    /\ UNCHANGED <<ctxDone, pending, stopped>>
    /\ UNCHANGED <<hubVars, joinVars, readVars, histVars, ghostVars>>
    /\ UNCHANGED <<stalled, onceVars>>

\* ----------------------------------------------------------- sendHistory
\* sendHistory, line 81: the test of len(h.Messages). The goroutine calling
\* it is not the loop, so the loop may append between this read and the
\* next.
HistBegin(c) ==
    /\ created(c)
    /\ hpc[c] = "idle"
    /\ nreplays < replayBudget
    /\ nreplays' = nreplays + 1
    /\ hpc' = [hpc EXCEPT ![c] = "slice"]
    /\ hlen' = [hlen EXCEPT ![c] = Len(Messages)]
    /\ hchain' = [hchain EXCEPT ![c] = quiet[c]]
    /\ quiet' = [quiet EXCEPT ![c] = TRUE]
    /\ UNCHANGED <<ctxDone, loopVars, stopped, handed, lastReplay>>
    /\ UNCHANGED <<hubVars, joinVars, readVars>>
    /\ UNCHANGED <<roster, msgBudget, replayBudget, initLen, nacc,
                   acceptedP, registered, removals, sizeAtLeave, lastSeq>>
    /\ UNCHANGED <<stalled, onceVars>>

\* sendHistory, lines 83 to 91: take the slice, Send each message of it,
\* then Send the over marker.
HistSend(c) ==
    /\ hpc[c] = "slice"
    /\ lastReplay' = [lastReplay EXCEPT
                        ![c] = [sent |-> Append(HistorySlice(hlen[c], Messages),
                                                OverMsg),
                                ok |-> ~stopped[c]]]
    /\ hpc' = [hpc EXCEPT ![c] = "idle"]
    /\ hlen' = [hlen EXCEPT ![c] = 0]
    /\ hchain' = [hchain EXCEPT ![c] = FALSE]
    /\ Messages' = HistoryAfterReplay(Messages)
    /\ UNCHANGED <<ctxDone, loopVars, clients, storeCalls, stopped, handed,
                   nreplays>>
    /\ UNCHANGED <<joinVars, readVars, ghostVars>>
    /\ UNCHANGED <<stalled, onceVars>>

\* ------------------------------------------------------------------ Next
Next ==
    \/ RoomServe
    \/ RoomStop
    \/ \E c \in Clients : UserJoin(c)
    \/ \E c \in Clients : JoinCount(c)
    \/ \E c \in Clients : JoinPanic(c)
    \/ \E c \in Clients : \E m \in UserMsgs : ClientRead(c, m)
    \/ \E c \in Clients : ClientDisconnect(c)
    \/ \E c \in Clients : LeaveCount(c)
    \/ \E c \in Clients : ReadPanic(c)
    \/ LoopStop
    \/ \E c \in Clients : LoopRegister(c)
    \/ \E c \in Clients : LoopUnregister(c)
    \/ \E o \in Offers : LoopBroadcast(o)
    \/ LoopPersist
    \/ \E c \in Clients : LoopSend(c)
    \/ LoopFanoutEnd
    \/ \E c \in Clients : HistBegin(c)
    \/ \E c \in Clients : HistSend(c)

\* The steps of a room that is never stopped.
NextRun ==
    \/ RoomServe
    \/ \E c \in Clients : UserJoin(c)
    \/ \E c \in Clients : JoinCount(c)
    \/ \E c \in Clients : \E m \in UserMsgs : ClientRead(c, m)
    \/ \E c \in Clients : ClientDisconnect(c)
    \/ \E c \in Clients : LeaveCount(c)
    \/ \E c \in Clients : LoopRegister(c)
    \/ \E c \in Clients : LoopUnregister(c)
    \/ \E o \in Offers : LoopBroadcast(o)
    \/ LoopPersist
    \/ \E c \in Clients : LoopSend(c)
    \/ LoopFanoutEnd
    \/ \E c \in Clients : HistBegin(c)
    \/ \E c \in Clients : HistSend(c)

Spec == Init /\ [][Next]_vars

SpecRun == Init /\ [][NextRun]_vars

\* SpecTrio: sessions 1 and 2 have joined one after the other (each got
\* the other's userCount broadcast where it was registered), the others
\* have yet to connect. Sessions connect and disconnect, nothing else
\* happens: no message from a transport, no replay, no Stop.
InitTrio ==
    /\ roster = Clients
    /\ msgBudget = 0
    /\ replayBudget = 0
    /\ ctxDone = FALSE
    /\ loopPc = "select"
    /\ loopMsg = NoMsg
    /\ pending = {}
    /\ clients = {1, 2}
    /\ Messages = StoredHistory(0)
    /\ storeCalls = 0
    /\ jpc = [c \in Clients |-> IF c \in {1, 2} THEN "done" ELSE "idle"]
    /\ jcount = [c \in Clients |-> 0]
    /\ rpc = [c \in Clients |-> IF c \in {1, 2} THEN "reading" ELSE "idle"]
    /\ rmsg = [c \in Clients |-> NoMsg]
    /\ rcount = [c \in Clients |-> 0]
    /\ stopped = [c \in Clients |-> FALSE]
    /\ handed = [c \in Clients |-> NoSend]
    /\ lastSeq = [c \in Clients |-> IF c \in {1, 2} THEN 2 ELSE 0]
    /\ hpc = [c \in Clients |-> "idle"]
    /\ hlen = [c \in Clients |-> 0]
    /\ quiet = [c \in Clients |-> FALSE]
    /\ hchain = [c \in Clients |-> FALSE]
    /\ lastReplay = [c \in Clients |-> NoReplay]
    /\ nread = 0
    /\ nreplays = 0
    /\ nacc = 2
    /\ initLen = 0
    /\ acceptedP = <<>>
    /\ registered = {1, 2}
    /\ removals = 0
    /\ sizeAtLeave = [c \in Clients |-> NoSize]
    /\ stalled = [c \in Clients |-> FALSE]
    /\ initDone = TRUE
    /\ nloops = 1
    /\ serveBudget = 1
    /\ nserve = 1

NextTrio ==
    \/ \E c \in Clients : UserJoin(c)
    \/ \E c \in Clients : JoinCount(c)
    \/ \E c \in Clients : ClientDisconnect(c)
    \/ \E c \in Clients : LeaveCount(c)
    \/ \E c \in Clients : LoopRegister(c)
    \/ \E c \in Clients : LoopUnregister(c)
    \/ \E o \in Offers : LoopBroadcast(o)
    \/ \E c \in Clients : LoopSend(c)
    \/ LoopFanoutEnd

SpecTrio == InitTrio /\ [][NextTrio]_vars

SpecSolo == InitSolo /\ [][Next]_vars

\* SpecStop: sessions connect and disconnect while the room is stopped at
\* any moment; no message from a transport, no replay.
InitStop ==
    /\ roster = 1..RunSessions
    /\ msgBudget = 0
    /\ replayBudget = 0
    /\ serveBudget = 1
    /\ InitRoom(0)

NextStop ==
    \/ RoomServe
    \/ RoomStop
    \/ \E c \in Clients : UserJoin(c)
    \/ \E c \in Clients : JoinCount(c)
    \/ \E c \in Clients : JoinPanic(c)
    \/ \E c \in Clients : ClientDisconnect(c)
    \/ \E c \in Clients : LeaveCount(c)
    \/ \E c \in Clients : ReadPanic(c)
    \/ LoopStop
    \/ \E c \in Clients : LoopRegister(c)
    \/ \E c \in Clients : LoopUnregister(c)
    \/ \E o \in Offers : LoopBroadcast(o)
    \/ \E c \in Clients : LoopSend(c)
    \/ LoopFanoutEnd

SpecStop == InitStop /\ [][NextStop]_vars

\* SpecLive: the whole room with transports that may stall, under the
\* scheduling the Go runtime gives the loop's goroutine: a case body that
\* can go on does go on (the store call returns, a Send that can return
\* does, the range loop ends), and a select at which the Done case is ready
\* again and again takes it in the end (select picks among the ready cases
\* at random). Nothing is assumed of the transports or of the callers.
InitLive ==
    /\ roster = 1..LiveSessions
    /\ msgBudget = LiveUserMsgs
    /\ replayBudget = 0
    /\ serveBudget = LiveServeCalls
    /\ InitRoom(0)

NextStall ==
    \/ RoomServe
    \/ RoomStop
    \/ \E c \in Clients : UserJoin(c)
    \/ \E c \in Clients : JoinCount(c)
    \/ \E c \in Clients : JoinPanic(c)
    \/ \E c \in Clients : \E m \in UserMsgs : ClientRead(c, m)
    \/ \E c \in Clients : ClientDisconnect(c)
    \/ \E c \in Clients : ClientStall(c)
    \/ \E c \in Clients : LeaveCount(c)
    \/ \E c \in Clients : ReadPanic(c)
    \/ LoopStop
    \/ \E c \in Clients : LoopRegister(c)
    \/ \E c \in Clients : LoopUnregister(c)
    \/ \E o \in Offers : LoopBroadcast(o)
    \/ LoopPersist
    \/ \E c \in Clients : LoopSend(c)
    \/ LoopFanoutEnd

LoopFairness ==
    /\ WF_vars(LoopPersist)
    /\ WF_vars(\E c \in Clients : LoopSend(c))
    /\ WF_vars(LoopFanoutEnd)
    /\ SF_vars(LoopStop)

SpecLive == InitLive /\ [][NextStall]_vars /\ LoopFairness

\* =================================================================== claims
\* The step in which the loop takes a message from h.broadcast.
AcceptStep == loopPc = "select" /\ loopPc' \in {"persist", "fanout"}

\* The step in which the loop processes c's unregister request.
UnregisterStep(c) == rpc[c] = "unregister" /\ rpc'[c] = "lcount"

\* ----------------------------------------------------------------------
\* C1: at every moment of a running room, UserCount() (the size of
\* h.clients) is the number of distinct sessions whose register was
\* processed minus the number of unregisters processed while the session
\* was in the set; and processing the unregister of a session that is not
\* in the set leaves the set as it is.
C1_UserCount ==
    /\ [](UserCountOf(clients) = Cardinality(registered) - removals)
    /\ [][\A c \in Clients :
            (UnregisterStep(c) /\ c \notin clients) => clients' = clients]_vars

\* Both sessions were registered, one of them was removed, and the other
\* one's unregister was processed while it was not in the set (it is in
\* the set now, its leave callback already past the unregister).
C1_Witness ==
    /\ Cardinality(registered) = 2
    /\ removals = 1
    /\ \E c \in clients : rpc[c] \in {"lcount", "lbcast", "done"}

\* ----------------------------------------------------------------------
\* C2: the stored history is always the history the room was constructed
\* with followed by exactly the text, image and file messages the loop
\* accepted, each once, in acceptance order; and no step removes, reorders
\* or overwrites a stored message (the old history is a prefix of the new).
C2_History ==
    /\ [](Messages = StoredHistory(initLen) \o acceptedP)
    /\ [][IsPrefix(Messages, Messages')]_vars

\* Two messages of different stored types were accepted after a non-empty
\* initial history, and the loop is back at its select.
C2_Witness ==
    /\ initLen > 0
    /\ Len(acceptedP) = 2
    /\ acceptedP[1].Type # acceptedP[2].Type
    /\ Len(Messages) = initLen + 2
    /\ loopPc = "select"

\* ----------------------------------------------------------------------
\* C3: when the loop accepts a broadcast whose type is not text, image or
\* file, the history stays as it is and the store is not invoked; when the
\* type is one of the three, exactly that message is appended and the
\* store is invoked exactly once, before any session is handed the
\* message. In both cases the message, and no other, is handed to every
\* registered session before the loop returns to its select.
C3_PersistThenFanout ==
    /\ [][AcceptStep =>
            /\ storeCalls' = storeCalls
            /\ handed' = handed
            /\ IF loopMsg'.Type \in StoredTypes
               THEN Messages' = Append(Messages, loopMsg') /\ loopPc' = "persist"
               ELSE Messages' = Messages /\ loopPc' = "fanout"]_vars
    /\ [][(loopPc = "persist" /\ loopPc' # "persist") =>
            /\ loopPc' = "fanout"
            /\ storeCalls' = storeCalls + 1
            /\ handed' = handed
            /\ Messages' = Messages]_vars
    /\ [][storeCalls' # storeCalls => loopPc = "persist"]_vars
    /\ [][\A c \in Clients :
            (handed'[c] # handed[c] /\ handed'[c] # NoSend) =>
                /\ loopPc = "fanout"
                /\ handed'[c].msg = loopMsg
                /\ c \in clients]_vars
    /\ [][(loopPc = "fanout" /\ loopPc' = "select") =>
            \A c \in clients : handed[c].msg = loopMsg]_vars

\* A message of an unknown type was handed to two registered sessions while
\* the history and the store were left alone.
C3_Witness ==
    /\ loopPc = "fanout"
    /\ pending = {}
    /\ loopMsg.Type = "ping"
    /\ Cardinality(clients) = 2
    /\ \A c \in clients : handed[c].msg = loopMsg
    /\ Messages = StoredHistory(initLen)
    /\ storeCalls = 0

\* ----------------------------------------------------------------------
\* The step in which c's sendHistory call sends what it sends.
ReplayStep(c) == hpc[c] = "slice" /\ hpc'[c] = "idle"

\* C4: a sendHistory call during which the history (of length L) was not
\* modified sends to the session exactly the last min(L, 100) history
\* messages, oldest first in history order, then exactly one over message
\* carrying the room name, and nothing else.
C4_Replay ==
    [][\A c \in Clients :
         (ReplayStep(c) /\ hlen[c] = Len(Messages)) =>
            lastReplay'[c].sent =
                Append(LastN(Messages, Min(Len(Messages), maxHistoryCount)),
                       [Type |-> "over", Data |-> 0, RoomName |-> RoomName])]_vars

\* The history holds 150 messages and the session's replay was its
\* positions 51..150 and then the marker: 101 messages in all.
C4_Witness ==
    /\ Len(Messages) = 150
    /\ Len(lastReplay[1].sent) = 101
    /\ \A i \in 1..100 : lastReplay[1].sent[i] = Messages[50 + i]
    /\ lastReplay[1].sent[101].Type = "over"
    /\ lastReplay[1].sent[101].RoomName = RoomName

\* ----------------------------------------------------------------------
\* C5: when no broadcast was accepted from the start of a session's
\* sendHistory call to the end of its next one, the second call sends the
\* same message sequence as the first, each ending with the over marker;
\* and no step of sendHistory changes the history or the membership set.
C5_ReplayIdempotent ==
    /\ [][\A c \in Clients :
            (ReplayStep(c) /\ hchain[c] /\ quiet[c]) =>
                /\ lastReplay'[c].sent = lastReplay[c].sent
                /\ lastReplay[c].sent[Len(lastReplay[c].sent)] = OverMsg
                /\ lastReplay'[c].sent[Len(lastReplay'[c].sent)] = OverMsg]_vars
    /\ [][(\E c \in Clients : hpc'[c] # hpc[c]) =>
            (Messages' = Messages /\ clients' = clients)]_vars

\* A session registered in a room of more than 100 messages is in its second
\* sendHistory call, no broadcast accepted since the first one began.
C5_Witness ==
    \E c \in clients :
        /\ hpc[c] = "slice"
        /\ hchain[c]
        /\ quiet[c]
        /\ nreplays = 2
        /\ Len(Messages) > maxHistoryCount
        /\ Len(lastReplay[c].sent) = maxHistoryCount + 1

\* ----------------------------------------------------------------------
\* C6: the loop hands every session the broadcasts in acceptance order:
\* the acceptance numbers of the messages handed to one session strictly
\* increase, and whatever a session is handed is the message the loop
\* accepted last, under every interleaving of broadcasters, joins and
\* leaves. Two sessions that both get m1 and m2 therefore get them in the
\* same order, the order of acceptance.
C6_SameOrder ==
    /\ [](\A c \in Clients :
            handed[c] # NoSend => (handed[c].msg = loopMsg /\ lastSeq[c] = nacc))
    /\ [][\A c \in Clients :
            lastSeq'[c] # lastSeq[c] =>
                (lastSeq'[c] > lastSeq[c] /\ lastSeq'[c] = nacc)]_vars

\* Both sessions were handed the first broadcast and the loop has accepted
\* the second one for both of them.
C6_Witness ==
    /\ nacc = 2
    /\ loopPc = "fanout"
    /\ Cardinality(clients) = 2
    /\ pending = clients
    /\ \A c \in clients : lastSeq[c] = 1

\* ----------------------------------------------------------------------
\* The step in which UserJoin's count call, or the leave callback's, reads
\* len(h.clients) and decides whether to broadcast.
JoinCountStep(c) == jpc[c] = "count" /\ jpc'[c] # "count"

LeaveCountStep(c) == rpc[c] = "lcount" /\ rpc'[c] # "lcount"

\* C7: every UserJoin on a running room is followed by one userCount
\* broadcast whose count is the size of the membership set, the session
\* just joined included: the count call of UserJoin always goes on to
\* broadcast, the session is in the set, and the count is the set's size.
C7_JoinBroadcastsCount ==
    [][\A c \in Clients :
         JoinCountStep(c) =>
            /\ jpc'[c] = "bcast"
            /\ c \in clients
            /\ jcount'[c] = Cardinality(clients)]_vars

\* ----------------------------------------------------------------------
\* C8: a leave whose processing left the membership set empty never goes
\* on to broadcast a userCount message, and the loop never takes a
\* userCount message from h.broadcast while no session is registered.
C8_NoCountForEmptyRoom ==
    /\ [][\A c \in Clients :
            (LeaveCountStep(c) /\ sizeAtLeave[c] = 0) => rpc'[c] # "lbcast"]_vars
    /\ [][(AcceptStep /\ loopMsg'.Type = "userCount") => clients # {}]_vars

\* ----------------------------------------------------------------------
\* C9: when a registered session is removed while others remain, the
\* userCount message its leave gives rise to, which is what the remaining
\* sessions get, carries the number of sessions that remained after the
\* removal; and processing the leave does not change the history.
C9_LeaveCountIsRemaining ==
    /\ [][\A c \in Clients :
            (LeaveCountStep(c) /\ sizeAtLeave[c] > 0) =>
                (rpc'[c] = "lbcast" /\ rcount'[c] = sizeAtLeave[c])]_vars
    /\ [][(\E c \in Clients : UnregisterStep(c)) => Messages' = Messages]_vars

\* ----------------------------------------------------------------------
\* C10: once the loop has exited on Stop, a join, leave or broadcast
\* request that is made afterwards or was pending is dropped without
\* putting its caller into a failure state: no goroutine panics on a send
\* on a closed channel.
C10_NoCallerFails ==
    \A c \in Clients : jpc[c] # "panic" /\ rpc[c] # "panic"

C12_StopCancelsSessions ==
    ctxDone => \A c \in Clients : jpc[c] # "idle" => stopped[c]

\* The room is stopped with one session registered and the other one built
\* but not yet registered.
C12_Witness ==
    /\ ctxDone
    /\ \E c \in clients : stopped[c]
    /\ \E c \in Clients \ clients : jpc[c] = "register" /\ stopped[c]

\* ----------------------------------------------------------------------
\* C13: every session's leave request is accepted by the loop's unregister
\* case exactly once, however the session ends: a session that offers its
\* leave on h.unregister keeps offering it until the loop accepts it (the
\* offer is never lost to a closed channel or an exited loop), and the loop
\* never accepts a leave of a session whose leave it accepted before.
C13_LeaveAcceptedOnce ==
    /\ [][\A c \in Clients :
            rpc[c] = "unregister" => rpc'[c] \in {"unregister", "lcount"}]_vars
    /\ [][\A c \in Clients :
            rpc'[c] = "lcount" => rpc[c] \in {"unregister", "lcount"}]_vars

\* ----------------------------------------------------------------------
\* C14: whenever the loop has begun to hand a message to the sessions, it
\* eventually is back at its select, also when a registered session never
\* takes anything from its send channel or is already torn down.
C14_FanoutReturns == (loopPc = "fanout") ~> (loopPc = "select")

\* ----------------------------------------------------------------------
\* C15: h.clients and h.Messages change only in steps of the control loop:
\* the set only where the loop, at its select, takes a session from
\* h.register or h.unregister, the history only where it takes a message
\* from h.broadcast. No step of UserJoin, BroadCast, sendHistory, the count
\* call, Stop or a leave callback changes either.
C15_OnlyLoopWrites ==
    /\ [][clients' # clients =>
            /\ loopPc = "select"
            /\ loopPc' = "select"
            /\ \E c \in Clients :
                 \/ /\ jpc[c] = "register"
                    /\ jpc'[c] = "count"
                    /\ clients' = clients \cup {c}
                 \/ /\ UnregisterStep(c)
                    /\ clients' = clients \ {c}]_vars
    /\ [][Messages' # Messages =>
            (AcceptStep /\ Messages' = Append(Messages, loopMsg'))]_vars

\* The session has joined, sent a stored message, replayed the history and
\* left, and the room was stopped: every operation outside the loop ran.
C15_Witness ==
    /\ ctxDone
    /\ registered = {1}
    /\ clients = {}
    /\ Len(acceptedP) > 0
    /\ lastReplay[1] # NoReplay
    /\ rpc[1] = "done"

\* ----------------------------------------------------------------------
\* C16: the loop exits only from its select and only when h.ctx is
\* cancelled; once it has exited it stays exited (the channels stay
\* closed), h.clients and h.Messages never change again, the loop hands no
\* message to any session, and a replay made afterwards delivers nothing.
C16_ExitOnlyOnStop ==
    /\ [][(loopPc # "exited" /\ loopPc' = "exited") =>
            (ctxDone /\ loopPc = "select")]_vars
    /\ [][loopPc = "exited" =>
            /\ loopPc' = "exited"
            /\ clients' = clients
            /\ Messages' = Messages
            /\ handed' = handed
            /\ lastSeq' = lastSeq
            /\ \A c \in Clients :
                 lastReplay'[c] # lastReplay[c] => ~lastReplay'[c].ok]_vars

\* The loop has exited with the session still in the set and a message in
\* the history, and a replay was made for the stopped session.
C16_Witness ==
    /\ loopPc = "exited"
    /\ 1 \in clients
    /\ Len(acceptedP) > 0
    /\ hpc[1] = "idle"
    /\ lastReplay[1] # NoReplay
    /\ ~lastReplay[1].ok

\* ----------------------------------------------------------------------
\* C17: when the loop takes a message from h.broadcast, the sessions it is
\* going to hand it to are exactly the sessions in h.clients at that
\* moment, the sender included; during the fan-out the set does not change
\* and each of them is handed the message once; when the loop is back at
\* its select exactly the sessions of the set were handed it. With an empty
\* set nobody is handed anything, and a text, image or file message is
\* appended to the history all the same.
C17_FanoutToMembers ==
    /\ [][AcceptStep =>
            /\ pending' = clients
            /\ \A c \in Clients : handed'[c] = NoSend
            /\ loopMsg'.Type \in StoredTypes =>
                  Messages' = Append(Messages, loopMsg')]_vars
    /\ [][\A c \in Clients :
            handed'[c] # handed[c] =>
                \/ handed'[c] = NoSend /\ loopPc' = "select"
                \/ /\ c \in clients
                   /\ c \in pending
                   /\ c \notin pending'
                   /\ handed[c] = NoSend
                   /\ handed'[c].msg = loopMsg]_vars
    /\ [][(loopPc = "persist" \/ loopPc = "fanout") =>
            (clients' = clients /\ pending' \subseteq pending)]_vars
    /\ [][(loopPc = "fanout" /\ loopPc' = "select") =>
            /\ pending = {}
            /\ \A c \in Clients : handed[c] # NoSend <=> c \in clients]_vars

\* A stored message sent by a session that is not registered yet was taken
\* while the set was empty: it is in the history and nobody was handed it.
C17_Witness ==
    /\ loopPc = "fanout"
    /\ clients = {}
    /\ pending = {}
    /\ loopMsg.Type \in StoredTypes
    /\ Messages = Append(StoredHistory(initLen), loopMsg)
    /\ \A c \in Clients : handed[c] = NoSend

\* ----------------------------------------------------------------------
\* C18: the step in which the loop processes the leave of session c leaves
\* h.ctx and the history alone; when c is in the set it removes c and no
\* other session and cancels c's context and no other; when c is not in
\* the set, the set and every session's context stay as they are.
C18_LeaveFrame ==
    [][\A c \in Clients :
         UnregisterStep(c) =>
            /\ ctxDone' = ctxDone
            /\ Messages' = Messages
            /\ IF c \in clients
               THEN /\ clients' = clients \ {c}
                    /\ stopped' = [stopped EXCEPT ![c] = TRUE]
               ELSE /\ clients' = clients
                    /\ stopped' = stopped]_vars

\* One registered session was removed and stopped while another one stays
\* registered and running, and the third one's leave was processed while it
\* was not in the set: it is in the set now, and not stopped.
C18_Witness ==
    /\ removals = 1
    /\ \E c \in registered \ clients : stopped[c]
    /\ \E c \in clients : rpc[c] = "reading" /\ ~stopped[c]
    /\ 3 \in clients
    /\ rpc[3] \in {"lcount", "lbcast", "done"}
    /\ ~stopped[3]

\* ----------------------------------------------------------------------
\* C19: however often Serve is called, at most one goroutine ever runs
\* serve: a loop is started only by the first call, and every register,
\* unregister and broadcast event is taken by that loop at its select, one
\* at a time.
C19_OneLoop ==
    /\ [](nloops <= 1)
    /\ [][nloops' # nloops => (nloops = 0 /\ loopPc = "notstarted")]_vars
    /\ [][(clients' # clients \/ nacc' # nacc
              \/ \E c \in Clients : UnregisterStep(c)) =>
            (nloops = 1 /\ loopPc = "select")]_vars

\* Serve was called twice and the one loop has taken a broadcast.
C19_Witness ==
    /\ nserve = 2
    /\ nloops = 1
    /\ nacc > 0

\* ----------------------------------------------------------------------
\* C20: no session whose leave request the loop has already processed is
\* in h.clients, in any reachable state of a running room.
C20_NoLeftSessionInSet ==
    \A c \in clients : rpc[c] \notin {"lcount", "lbcast", "done"}

====
